---- MODULE Spec2Model ----
(***************************************************************************)
(* MangoHud sensors of library/sensors/sensors_custom.py:                  *)
(*   MangoHudMetrics   the shared provider (singleton): connection state,  *)
(*                     metrics snapshot, rolling histories                 *)
(*   MangoHudFPS       the FPS facade (singleton) with discovery backoff   *)
(*   MangoHud1PercentLow, MangoHudZeroOnePercentLow, _MangoHudBaseSensor   *)
(*                     the thin facades                                    *)
(* The mangosocketreader client is an external library: its calls are      *)
(* modelled by their outcomes (return value or exception), drawn from the  *)
(* state of the producer and of the client's socket.                       *)
(*                                                                         *)
(* Numbers: a metric value v is held as the integer 2*v ("halves"), so     *)
(* that x.5 values exist and round()/ceil() are computed, not assumed.     *)
(* Times are in milliseconds.  Strings are sequences of characters.        *)
(***************************************************************************)
EXTENDS Integers, Sequences, FiniteSets, TLC

\* ------------------------------------------------------------ constants

\* None: self.pid = None ; m.get(k) is None (no pid, no metric value equals it)
None == -888888
\* math.nan, the "no data" entry of a history (no metric value equals it)
nan == -999999
\* [math.nan] * 60
HistLen == 60
\* self.discovery_interval = 5.0 (seconds), in ms
discovery_interval == 5000
\* the read guard of update(): now - self.last_update_ts < 0.01 (seconds), in ms
update_guard == 10

\* the keys of self.histories
HistKeys == {"fps", "gpu_load", "gpu_temp", "gpu_junction_temp", "gpu_power"}

\* the fields of the _MangoHudBaseSensor subclasses: <<field, history>>
BaseSensors ==
  { <<"fps_avg", FALSE>>, <<"gpu_load", TRUE>>, <<"gpu_temp", TRUE>>,
    <<"gpu_junction_temp", TRUE>>, <<"gpu_power", TRUE>>, <<"cpu_load", FALSE>>,
    <<"cpu_power", FALSE>>, <<"cpu_temp", FALSE>>, <<"gpu_vram_used", FALSE>> }

\* The subclasses differ in their field and history flag only.  The ones
\* polled here: with and without history, and those whose value in FrameA or
\* FrameB is absent, negative, or 1000.
Polled ==
  { b \in BaseSensors : b[1] \in {"fps_avg", "gpu_load", "gpu_power", "gpu_vram_used"} }

\* ------------------------------------------------------------ bounds

\* successful update() calls in one behaviour
MaxUpdates == 1

\* ------------------------------------------------------------ inputs

\* the process ids a producer can have; a new producer does not get the pid
\* of the one before it
PIDS == {101, 102}
NextPid(last) == CHOOSE p \in PIDS : p /= last

\* a clock step of exactly the read guard, and one of the discovery interval;
\* calls between two steps happen at the same instant
SmallStep == update_guard
CoarseStep == discovery_interval
\* time.time() is read relative to Epoch: the process starts long after the
\* timestamp 0.0 that __init__ stores
Epoch == discovery_interval

\* what client.read_metrics() can deliver, in halves:
\*   FrameA  120.0 fps, 1% low 95.5, 0.1% low 85.5, vram 1000
\*   FrameB  999.5 fps, no 1% low, gpu_power -100, gpu_temp 0.5
FrameA ==
  [ k \in {"fps", "fps_1_percent_low", "fps_0_1_percent_low", "fps_avg", "gpu_load",
           "gpu_temp", "gpu_junction_temp", "gpu_power", "cpu_load", "cpu_power",
           "cpu_temp", "gpu_vram_used"} |->
      CASE k = "fps" -> 240
        [] k = "fps_1_percent_low" -> 191
        [] k = "fps_0_1_percent_low" -> 171
        [] k = "fps_avg" -> 230
        [] k = "gpu_load" -> 198
        [] k = "gpu_temp" -> 131
        [] k = "gpu_junction_temp" -> 150
        [] k = "gpu_power" -> 500
        [] k = "cpu_load" -> 25
        [] k = "cpu_power" -> 90
        [] k = "cpu_temp" -> 5
        [] k = "gpu_vram_used" -> 2000 ]
FrameB ==
  [ k \in {"fps", "gpu_temp", "gpu_power"} |->
      CASE k = "fps" -> 1999
        [] k = "gpu_temp" -> 1
        [] k = "gpu_power" -> -200 ]
\* {} : an empty mapping (falsy)
EmptyFrame == [ k \in {} |-> 0 ]
\* read_metrics() returning None, and read_metrics() raising
NoFrame == [ k \in {"None"} |-> 0 ]
Raises == [ k \in {"raise"} |-> 0 ]
Frames == {FrameA, FrameB, EmptyFrame}

\* ------------------------------------------------------------ numbers, text

\* round(x) of Python 3 (round half to even), x = h/2
PyRound(h) ==
  IF h % 2 = 0 THEN h \div 2
  ELSE LET f == (h - 1) \div 2 IN IF f % 2 = 0 THEN f ELSE f + 1

\* math.ceil(x), x = h/2
PyCeil(h) == (h + 1) \div 2

DigitChar(d) == <<"0", "1", "2", "3", "4", "5", "6", "7", "8", "9">>[d + 1]

RECURSIVE Dec(_)
Dec(n) == IF n < 10 THEN <<DigitChar(n)>> ELSE Dec(n \div 10) \o <<DigitChar(n % 10)>>

\* str(n) of an int
Str(n) == IF n < 0 THEN <<"-">> \o Dec(-n) ELSE Dec(n)

\* the format spec ">3d": right-aligned in at least 3 columns
Format3d(n) ==
  LET s == Str(n) IN
  IF Len(s) >= 3 THEN s ELSE [ i \in 1..(3 - Len(s)) |-> " " ] \o s

\* the literal "---"
Placeholder == <<"-", "-", "-">>

\* [math.nan] * 60
NanList == [ i \in 1..HistLen |-> nan ]

\* m.get(k)
DictGet(m, k) == IF k \in DOMAIN m THEN m[k] ELSE None

\* bool(m) / "not m" of a mapping or None
Truthy(m) == m /= NoFrame /\ DOMAIN m /= {}

\* ------------------------------------------------------------ state

VARIABLES
  provider,         \* the MangoHudMetrics singleton: its attributes
  fps,              \* the MangoHudFPS singleton: class and instance attributes
  now,              \* time.time(), ms
  os_pid,           \* os.getpid(): the model follows one process
  installed,        \* the mangosocketreader package can be imported
  producer,         \* pid of the running producer, or None
  spawned,          \* pid of the latest producer, or None
  sock,             \* the client's socket: "none", "open", "dead" (peer gone)
  sock_pid,         \* the pid the client is connected to, or None
  updates,          \* successful update() calls so far
  ever_connected,   \* some client.connect() has succeeded
  last_attempt_ts,  \* time of the last client.connect() call a poll of a facade
                    \* made while none has succeeded (0: none yet, or one has
                    \* succeeded)
  call,             \* the last completed call: what it was, what it returned
  th,               \* the threads that poll at once: where each one stands
  opened,           \* client.connect() calls that succeeded since the
                    \* provider was last set disconnected
  stream            \* what the producer emits, frame after frame

vars ==
  << provider, fps, now, os_pid, installed, producer, spawned, sock, sock_pid, updates,
     ever_connected, last_attempt_ts, call, th, opened, stream >>

\* a producer whose frames the model does not follow one by one
NoStream == [ base |-> 0, gap |-> 0 ]

\* the threads of the host that poll sensors at once
Threads == {1, 2}

\* a thread outside any call
ThreadIdle == [ pc |-> "idle", res |-> "none", m |-> NoFrame, k |-> 0 ]

conc == << th, opened, stream >>

\* the attributes MangoHudMetrics.__init__ sets; imp: the client import succeeded
ProviderInit(imp) ==
  [ init_done |-> TRUE,
    client |-> IF imp THEN "MangoHudClient" ELSE "None",
    connected |-> FALSE,
    pid |-> None,
    metrics |-> EmptyFrame,
    last_update_ts |-> 0,
    histories |-> [ k \in HistKeys |-> NanList ] ]

\* the attributes MangoHudFPS.__init__ sets, in process ospid
FpsInit(ospid) ==
  [ initialized |-> TRUE,
    process_id |-> ospid,
    connected |-> FALSE,
    pid |-> None,
    last_discovery_time |-> 0,
    current_fps |-> 0,
    one_percent_low_fps |-> 0,
    zero_one_percent_low_fps |-> 0,
    last_val |-> NanList ]

\* What one call works on: the objects (p, f), the client's socket, the
\* counters, and what the call has done and returned so far.
\*   retb/retn/rets/retl  the return value (bool, number, text, list)
\*   exc                  an exception is propagating to the caller
\*   connect_failed       client.connect() returned false or raised
\*   read_fault           client.read_metrics() raised or met a closed peer
\*   injected             the client failed for no reason the model holds: a
\*                        refused connect() to a running producer, a raise
\*   read_empty           client.read_metrics() was called and gave nothing
\*   attempt_gap          time since last_attempt_ts at client.connect(),
\*   first_pending        made while no connect() had succeeded yet
\*   res, frame           the result of the last client call
World(op, sensor) ==
  [ p |-> provider, f |-> fps, sock |-> sock, sock_pid |-> sock_pid,
    updates |-> updates, ever_connected |-> ever_connected,
    last_attempt_ts |-> last_attempt_ts,
    op |-> op, sensor |-> sensor,
    retb |-> FALSE, retn |-> 0, rets |-> <<>>, retl |-> <<>>, exc |-> FALSE,
    res |-> "none", frame |-> NoFrame,
    connects |-> 0, reads |-> 0, closes |-> 0,
    connect_failed |-> FALSE, read_fault |-> FALSE, injected |-> FALSE,
    attempt_gap |-> -1, first_pending |-> FALSE,
    pre_connected |-> provider.connected, pre_pid |-> provider.pid,
    pre_fconnected |-> fps.connected ]

\* the record kept of a completed call
CallOf(w) ==
  [ op |-> w.op, sensor |-> w.sensor,
    retb |-> w.retb, retn |-> w.retn, rets |-> w.rets, retl |-> w.retl,
    exc |-> w.exc, connects |-> w.connects, reads |-> w.reads,
    closes |-> w.closes,
    connect_failed |-> w.connect_failed, read_fault |-> w.read_fault,
    injected |-> w.injected,
    read_empty |-> (w.reads > 0 /\ ~Truthy(w.frame)),
    attempt_gap |-> w.attempt_gap, first_pending |-> w.first_pending,
    pre_connected |-> w.pre_connected, pre_pid |-> w.pre_pid,
    pre_fconnected |-> w.pre_fconnected ]

NoCall == CallOf([World("none", "none") EXCEPT
                    !.pre_connected = FALSE, !.pre_pid = None,
                    !.pre_fconnected = FALSE])

\* ------------------------------------------------------------ the client
\* o: the outcomes the environment gives this call
\*   o.imp     the import of mangosocketreader.client succeeds
\*   o.conn    client.connect(): "ok", "false", "raise"
\*   o.getpid  client.get_pid(): "ok", "raise"
\*   o.read    client.read_metrics(): a frame, NoFrame or Raises
\*   o.close   client.disconnect(): "ok", "raise"
\*   o.now, o.producer, o.os_pid   the clock, the producer, the process

\* client.connect(): succeeds only if a producer runs
client_connect(w, o) ==
  LET res == IF o.conn = "ok" /\ o.producer = None THEN "false" ELSE o.conn IN
  [ w EXCEPT !.res = res,
             !.connects = @ + 1,
             !.attempt_gap = o.now - w.last_attempt_ts,
             !.first_pending = ~w.ever_connected,
             !.last_attempt_ts = IF w.ever_connected \/ res = "ok" THEN 0
                                 ELSE IF w.op \in {"as_numeric", "as_string"} THEN o.now
                                 ELSE @,
             !.connect_failed = (res /= "ok"),
             !.injected = @ \/ (res /= "ok" /\ o.producer /= None),
             !.ever_connected = @ \/ res = "ok",
             !.sock = IF res = "ok" THEN "open" ELSE @,
             !.sock_pid = IF res = "ok" THEN o.producer ELSE @ ]

\* client.get_pid()
client_get_pid(w, o) ==
  [ w EXCEPT !.res = o.getpid, !.retn = w.sock_pid,
             !.injected = @ \/ o.getpid = "raise" ]

\* client.read_metrics(): a frame only from a live socket; a closed peer is
\* noticed by the read, which drops the socket and delivers nothing
client_read_metrics(w, o) ==
  LET live == w.sock = "open"
      got == IF o.read = Raises THEN NoFrame
             ELSE IF live THEN o.read ELSE NoFrame
  IN [ w EXCEPT !.res = IF o.read = Raises THEN "raise" ELSE "ok",
                !.frame = got,
                !.reads = @ + 1,
                !.read_fault = (o.read = Raises \/ ~live),
                !.injected = @ \/ o.read = Raises,
                !.sock = IF w.sock = "dead" THEN "none" ELSE @,
                !.sock_pid = IF w.sock = "dead" THEN None ELSE @ ]

\* client.disconnect(): closes the socket, or fails to
client_disconnect(w, o) ==
  [ w EXCEPT !.res = o.close,
             !.closes = @ + 1,
             !.injected = @ \/ o.close = "raise",
             !.sock = IF o.close = "ok" THEN "none" ELSE @,
             !.sock_pid = IF o.close = "ok" THEN None ELSE @ ]

\* ------------------------------------------------------------ MangoHudMetrics

\* __init__ without its guard: every construction initialises again
init_done_guard_missing(p) == FALSE

\* __init__: if getattr(self, "_init_done", False): return
init_done_guard(p) == p.init_done

\* MangoHudMetrics() / MangoHudMetrics.instance(): __new__ and __init__
MangoHudMetrics_new(w, o) ==
  IF init_done_guard(w.p) THEN w ELSE [ w EXCEPT !.p = ProviderInit(o.imp) ]

\* ensure_client()
ensure_client(w, o) ==
  IF w.p.client = "None"
  THEN IF o.imp
       THEN [ w EXCEPT !.p.client = "MangoHudClient", !.retb = TRUE ]
       ELSE [ w EXCEPT !.retb = FALSE ]
  ELSE [ w EXCEPT !.retb = TRUE ]

\* ensure_connected() without its early return: every call connects
already_connected_never(p) == FALSE

\* ensure_connected(): if self.connected: return True
already_connected(p) == p.connected

\* ensure_connected() without its except branch: the exception of
\* client.connect() goes on to the caller
connect_raised_uncaught(w) == [ w EXCEPT !.exc = TRUE ]

\* ensure_connected(): the except branch around client.connect()
connect_raised(w) == [ w EXCEPT !.p.connected = FALSE, !.retb = FALSE ]

\* ensure_connected(): self.connected = bool(self.client.connect()) and the
\* pid lookup that follows a success
connect_returned(w, o) ==
  IF w.res = "ok"
  THEN LET w1 == client_get_pid([ w EXCEPT !.p.connected = TRUE ], o) IN
       [ w1 EXCEPT !.p.pid = IF w1.res = "raise" THEN None ELSE w1.retn,
                   !.retn = 0, !.retb = TRUE ]
  ELSE [ w EXCEPT !.p.connected = FALSE, !.retb = FALSE ]

\* ensure_connected()
ensure_connected(w, o) ==
  LET w1 == ensure_client(w, o) IN
  IF ~w1.retb THEN [ w1 EXCEPT !.retb = FALSE ]
  ELSE IF already_connected(w1.p) THEN [ w1 EXCEPT !.retb = TRUE ]
  ELSE LET w2 == client_connect(w1, o) IN
       IF w2.res = "raise" THEN connect_raised(w2) ELSE connect_returned(w2, o)

\* disconnect() whose reset is no finally block: an exception of
\* client.disconnect() skips it
provider_disconnect_reset_skipped(w, o) ==
  LET w1 == IF w.p.client /= "None" THEN client_disconnect(w, o)
            ELSE [ w EXCEPT !.res = "ok" ]
  IN IF w1.res = "raise" THEN [ w1 EXCEPT !.exc = TRUE ]
     ELSE [ w1 EXCEPT !.p.connected = FALSE, !.p.pid = None ]

\* disconnect(): try: client.disconnect()  finally: reset.  There is no
\* except clause: an exception of client.disconnect() goes on to the caller
\* after the finally block has run.
provider_disconnect(w, o) ==
  LET w1 == IF w.p.client /= "None" THEN client_disconnect(w, o)
            ELSE [ w EXCEPT !.res = "ok" ]
  IN [ w1 EXCEPT !.p.connected = FALSE, !.p.pid = None,
                 !.exc = (w1.res = "raise") ]

\* update() without its guard: every call reads
read_throttled_never(p, t) == FALSE

\* update(): the guard against several reads in one tick
read_throttled(p, t) == t - p.last_update_ts < update_guard

\* a push that forgets to evict
push_without_pop(h, v) == Append(h, v)

\* a push at the wrong end
push_in_front(h, v) == << v >> \o SubSeq(h, 1, Len(h) - 1)

\* update(): one push on a history: append, then pop(0)
push(h, v) == Tail(Append(h, v))

\* a loop that pushes only the fields the mapping holds
push_present_only(hs, m) ==
  [ k \in HistKeys |->
      IF DictGet(m, k) = None THEN hs[k] ELSE push(hs[k], DictGet(m, k)) ]

\* update(): the loop over self.histories for the mapping m
push_all(hs, m) ==
  [ k \in HistKeys |->
      push(hs[k], IF DictGet(m, k) = None THEN nan ELSE DictGet(m, k)) ]

\* a snapshot that keeps the fields the new mapping lacks
store_merged(old, m) ==
  [ k \in DOMAIN old \cup DOMAIN m |-> IF k \in DOMAIN m THEN m[k] ELSE old[k] ]

\* update(): self.metrics = m
store_snapshot(old, m) == m

\* an empty read that wipes the snapshot
nothing_read_clears(w) == [ w EXCEPT !.retb = FALSE, !.p.metrics = EmptyFrame ]

\* update(): if not m: return False
nothing_read(w) == [ w EXCEPT !.retb = FALSE ]

\* a read_metrics() that raises, left to the caller
read_raised_uncaught(w) == [ w EXCEPT !.exc = TRUE ]

\* update(): except Exception around read_metrics(): m = None
read_raised(w) == [ w EXCEPT !.frame = NoFrame ]

\* update()
update(w, o) ==
  IF ~w.p.connected THEN [ w EXCEPT !.retb = FALSE ]
  ELSE IF read_throttled(w.p, o.now) THEN [ w EXCEPT !.retb = Truthy(w.p.metrics) ]
  ELSE LET w0 == client_read_metrics([ w EXCEPT !.p.last_update_ts = o.now ], o)
           w1 == IF w0.res = "raise" THEN read_raised(w0) ELSE w0
           m == w1.frame
       IN IF ~Truthy(m) THEN nothing_read(w1)
          ELSE [ w1 EXCEPT !.p.metrics = store_snapshot(@, m),
                           !.p.histories = push_all(w1.p.histories, m),
                           !.updates = @ + 1,
                           !.retb = TRUE ]

\* get(field)
get(w, field) == DictGet(w.p.metrics, field)

\* get_history(field)
get_history(w, field) ==
  IF field \in HistKeys THEN w.p.histories[field] ELSE NanList

\* ------------------------------------------------------------ MangoHudFPS

\* MangoHudFPS(): __new__ drops the singleton when os.getpid() has changed,
\* __init__ runs once per process and fetches the shared provider
MangoHudFPS_new(w, o) ==
  IF w.f.process_id = o.os_pid /\ w.f.initialized THEN w
  ELSE [ MangoHudMetrics_new(w, o) EXCEPT !.f = FpsInit(o.os_pid) ]

\* connect()
fps_connect(w, o) ==
  IF w.f.connected THEN [ w EXCEPT !.retb = TRUE ]
  ELSE LET w1 == ensure_connected(w, o) IN
       [ w1 EXCEPT !.f.connected = w1.p.connected, !.f.pid = w1.p.pid ]

\* disconnect(): the two assignments run only if provider.disconnect() returns
fps_disconnect(w, o) ==
  LET w1 == provider_disconnect(w, o) IN
  IF w1.exc THEN w1
  ELSE [ w1 EXCEPT !.f.connected = FALSE, !.f.pid = None ]

\* discover_and_connect(): the backoff test
backoff_elapsed(f, t) == t - f.last_discovery_time >= discovery_interval

\* discover_and_connect()
discover_and_connect(w, o) ==
  IF ~w.f.connected /\ backoff_elapsed(w.f, o.now)
  THEN fps_connect([ w EXCEPT !.f.last_discovery_time = o.now ], o)
  ELSE w

\* float(x or 0.0)
OrZero(v) == IF v = None \/ v = 0 THEN 0 ELSE v

\* read_fps_data()
read_fps_data(w, o) ==
  IF ~w.f.connected THEN [ w EXCEPT !.retb = FALSE ]
  ELSE LET w1 == update(w, o) IN
       IF ~w1.retb THEN [ w1 EXCEPT !.retb = FALSE ]
       ELSE [ w1 EXCEPT !.f.current_fps = OrZero(get(w1, "fps")),
                        !.f.one_percent_low_fps = OrZero(get(w1, "fps_1_percent_low")),
                        !.retb = TRUE ]

\* as_numeric() that takes its value before it reads
fps_as_numeric_stale(w, o) ==
  LET w1 == discover_and_connect(w, o)
      w2 == IF w1.f.connected THEN read_fps_data(w1, o) ELSE w1
  IN [ w2 EXCEPT !.retn = w.f.current_fps, !.retb = FALSE ]

\* as_numeric()
fps_as_numeric(w, o) ==
  LET w1 == discover_and_connect(w, o)
      w2 == IF w1.f.connected THEN read_fps_data(w1, o) ELSE w1
  IN [ w2 EXCEPT !.retn = w2.f.current_fps, !.retb = FALSE ]

\* as_string()
fps_as_string(w, o) ==
  LET w1 == IF ~w.f.connected THEN discover_and_connect(w, o) ELSE w IN
  IF ~w1.p.connected THEN [ w1 EXCEPT !.rets = Placeholder, !.retb = FALSE ]
  ELSE LET w2 == IF w1.f.connected THEN read_fps_data(w1, o) ELSE w1 IN
       [ w2 EXCEPT !.rets = Format3d(PyRound(w2.f.current_fps)), !.retb = FALSE ]

\* last_values()
fps_last_values(w) == [ w EXCEPT !.retl = w.f.last_val ]

\* ------------------------------------------------------------ the low sensors

\* MangoHud1PercentLow.as_numeric()
one_as_numeric(w, o) ==
  LET w1 == MangoHudFPS_new(w, o) IN
  [ w1 EXCEPT !.retn = w1.f.one_percent_low_fps ]

\* MangoHud1PercentLow.as_string()
one_as_string(w, o) ==
  LET w1 == MangoHudFPS_new(w, o) IN
  IF ~w1.f.connected THEN [ w1 EXCEPT !.rets = Placeholder ]
  ELSE [ w1 EXCEPT !.rets = Format3d(PyRound(w1.f.one_percent_low_fps)) ]

\* MangoHudZeroOnePercentLow.as_numeric()
zero_one_as_numeric(w, o) ==
  LET w1 == MangoHudFPS_new(w, o) IN
  [ w1 EXCEPT !.retn = w1.f.zero_one_percent_low_fps ]

\* MangoHudZeroOnePercentLow.as_string()
zero_one_as_string(w, o) ==
  LET w1 == MangoHudFPS_new(w, o) IN
  IF ~w1.f.connected THEN [ w1 EXCEPT !.rets = Placeholder ]
  ELSE [ w1 EXCEPT !.rets = Format3d(PyCeil(w1.f.zero_one_percent_low_fps)) ]

\* ------------------------------------------------------------ _MangoHudBaseSensor

\* _ensure()
base_ensure(w, o) == update(ensure_connected(w, o), o)

\* as_numeric(): float(v) if v is not None else 0.0
base_as_numeric(w, o, field) ==
  LET w1 == base_ensure(w, o)
      v == get(w1, field)
  IN [ w1 EXCEPT !.retn = IF v = None THEN 0 ELSE v, !.retb = FALSE ]

\* as_string(): f"{int(round(v)):>3d}" of as_numeric(); the except branch is
\* taken for no number a mapping of Frames holds
base_as_string(w, o, field) ==
  LET w1 == base_as_numeric(w, o, field) IN
  [ w1 EXCEPT !.rets = Format3d(PyRound(w1.retn)) ]

\* last_values()
base_last_values(w, field, history) ==
  [ w EXCEPT !.retl = IF ~history THEN NanList ELSE get_history(w, field) ]

\* ------------------------------------------------------------ actions

\* no call is under way
Idle == call.op = "none"

\* the state before any sensor object exists
Init ==
  /\ provider = [ ProviderInit(FALSE) EXCEPT !.init_done = FALSE ]
  /\ fps = [ FpsInit(None) EXCEPT !.initialized = FALSE ]
  /\ now = Epoch
  /\ os_pid = 1
  /\ installed \in BOOLEAN
  /\ producer = None
  /\ spawned = None
  /\ sock = "none"
  /\ sock_pid = None
  /\ updates = 0
  /\ ever_connected = FALSE
  /\ last_attempt_ts = 0
  /\ call = NoCall
  /\ th = [ t \in Threads |-> ThreadIdle ]
  /\ opened = 0
  /\ stream = NoStream

\* the outcomes one call can meet
Out(imp, conn, getpid, read, close) ==
  [ imp |-> imp, conn |-> conn, getpid |-> getpid, read |-> read,
    close |-> close, now |-> now, producer |-> producer, os_pid |-> os_pid ]

\* The outcomes are drawn only where they can make a difference: connect()
\* while the provider is disconnected, get_pid() after a connect() that
\* succeeds, a read while the provider is or becomes connected, the content of
\* a frame while the socket can be live.  No frame with content comes beyond
\* MaxUpdates.  The import succeeds if the package is installed.
ImportOutcomes == {installed}
ConnectOutcomes ==
  IF provider.connected THEN {"false"}
  ELSE IF producer = None THEN {"false", "raise"}
  ELSE {"ok", "false", "raise"}
GetPidOutcomes(c) == IF c = "ok" THEN {"ok", "raise"} ELSE {"ok"}
ReadOutcomes ==
  IF updates < MaxUpdates /\ (sock = "open" \/ producer /= None)
  THEN Frames \cup {NoFrame, Raises}
  ELSE {NoFrame, Raises}
ReadOutcomesAfter(c) ==
  IF provider.connected \/ c = "ok" THEN ReadOutcomes ELSE {NoFrame}
CloseOutcomes == IF provider.client = "None" /\ ~installed THEN {"ok"} ELSE {"ok", "raise"}

\* a constructor call
InitOutcomes == { Out(i, "false", "ok", NoFrame, "ok") : i \in ImportOutcomes }

\* a call that can connect
ConnOutcomes ==
  UNION { { Out(i, c, g, NoFrame, "ok") : i \in ImportOutcomes, g \in GetPidOutcomes(c) }
          : c \in ConnectOutcomes }

\* a call that can read
UpdateOutcomes ==
  { Out(i, "false", "ok", r, "ok") : i \in ImportOutcomes, r \in ReadOutcomes }

\* a call that can connect and read
PollOutcomes ==
  UNION { { Out(i, c, g, r, "ok") :
              i \in ImportOutcomes, g \in GetPidOutcomes(c), r \in ReadOutcomesAfter(c) }
          : c \in ConnectOutcomes }

\* a call that can close
DiscOutcomes ==
  { Out(i, "false", "ok", NoFrame, x) : i \in ImportOutcomes, x \in CloseOutcomes }

\* the effects of a call and its record become the state
Effects(w) ==
  /\ provider' = w.p
  /\ fps' = w.f
  /\ sock' = w.sock
  /\ sock_pid' = w.sock_pid
  /\ updates' = w.updates
  /\ ever_connected' = w.ever_connected
  /\ last_attempt_ts' = w.last_attempt_ts
  /\ call' = CallOf(w)
  /\ UNCHANGED << now, os_pid, installed, producer, spawned >>

\* the call is over
Done(w) ==
  /\ Effects(w)
  /\ UNCHANGED conc

\* MangoHudMetrics() / MangoHudMetrics.instance()
NewMetrics ==
  /\ Idle
  /\ \E o \in InitOutcomes :
      Done(MangoHudMetrics_new(World("MangoHudMetrics", "provider"), o))

\* MangoHudFPS()
NewFps ==
  /\ Idle
  /\ \E o \in InitOutcomes :
      Done(MangoHudFPS_new(World("MangoHudFPS", "MangoHudFPS"), o))

\* MangoHudMetrics.instance().ensure_connected()
EnsureConnected ==
  /\ Idle
  /\ \E o \in ConnOutcomes :
      Done(ensure_connected(MangoHudMetrics_new(World("ensure_connected", "provider"), o), o))

\* MangoHudMetrics.instance().disconnect()
Disconnect ==
  /\ Idle
  /\ \E o \in DiscOutcomes :
      Done(provider_disconnect(MangoHudMetrics_new(World("disconnect", "provider"), o), o))

\* MangoHudMetrics.instance().update()
Update ==
  /\ Idle
  /\ \E o \in UpdateOutcomes :
      Done(update(MangoHudMetrics_new(World("update", "provider"), o), o))

\* MangoHudFPS().connect()
FpsConnect ==
  /\ Idle
  /\ \E o \in ConnOutcomes :
      Done(fps_connect(MangoHudFPS_new(World("connect", "MangoHudFPS"), o), o))

\* MangoHudFPS().disconnect()
FpsDisconnect ==
  /\ Idle
  /\ \E o \in DiscOutcomes :
      Done(fps_disconnect(MangoHudFPS_new(World("disconnect", "MangoHudFPS"), o), o))

\* MangoHudFPS().read_fps_data()
FpsReadFpsData ==
  /\ Idle
  /\ \E o \in UpdateOutcomes :
      Done(read_fps_data(MangoHudFPS_new(World("read_fps_data", "MangoHudFPS"), o), o))

\* MangoHudFPS().as_numeric()
FpsAsNumeric ==
  /\ Idle
  /\ \E o \in PollOutcomes :
      Done(fps_as_numeric(MangoHudFPS_new(World("as_numeric", "MangoHudFPS"), o), o))

\* MangoHudFPS().as_string()
FpsAsString ==
  /\ Idle
  /\ \E o \in PollOutcomes :
      Done(fps_as_string(MangoHudFPS_new(World("as_string", "MangoHudFPS"), o), o))

\* MangoHudFPS().last_values()
FpsLastValues ==
  /\ Idle
  /\ \E o \in InitOutcomes :
      Done(fps_last_values(MangoHudFPS_new(World("last_values", "MangoHudFPS"), o)))

\* MangoHud1PercentLow().as_numeric()
OneAsNumeric ==
  /\ Idle
  /\ \E o \in InitOutcomes :
      Done(one_as_numeric(World("as_numeric", "MangoHud1PercentLow"), o))

\* MangoHud1PercentLow().as_string()
OneAsString ==
  /\ Idle
  /\ \E o \in InitOutcomes :
      Done(one_as_string(World("as_string", "MangoHud1PercentLow"), o))

\* MangoHudZeroOnePercentLow().as_numeric()
ZeroOneAsNumeric ==
  /\ Idle
  /\ \E o \in InitOutcomes :
      Done(zero_one_as_numeric(World("as_numeric", "MangoHudZeroOnePercentLow"), o))

\* MangoHudZeroOnePercentLow().as_string()
ZeroOneAsString ==
  /\ Idle
  /\ \E o \in InitOutcomes :
      Done(zero_one_as_string(World("as_string", "MangoHudZeroOnePercentLow"), o))

\* a _MangoHudBaseSensor subclass: construction, then as_numeric()
BaseAsNumeric ==
  /\ Idle
  /\ \E o \in PollOutcomes, b \in Polled :
      Done(base_as_numeric(MangoHudMetrics_new(World("as_numeric", b[1]), o), o, b[1]))

\* a _MangoHudBaseSensor subclass: construction, then as_string()
BaseAsString ==
  /\ Idle
  /\ \E o \in PollOutcomes, b \in Polled :
      Done(base_as_string(MangoHudMetrics_new(World("as_string", b[1]), o), o, b[1]))

\* a _MangoHudBaseSensor subclass: construction, then last_values()
BaseLastValues ==
  /\ Idle
  /\ \E o \in InitOutcomes, b \in Polled :
      Done(base_last_values(MangoHudMetrics_new(World("last_values", b[1]), o), b[1], b[2]))

\* the caller takes the result of the call
Return ==
  /\ ~Idle
  /\ call' = NoCall
  /\ UNCHANGED << provider, fps, now, os_pid, installed, producer, spawned, sock, sock_pid,
                  updates, ever_connected, last_attempt_ts >>
  /\ UNCHANGED conc

\* The steps of the environment happen between calls.

\* the package is installed while the process runs
Install ==
  /\ Idle
  /\ ~installed
  /\ installed' = TRUE
  /\ UNCHANGED << call, provider, fps, now, os_pid, producer, spawned, sock,
                  sock_pid, updates, ever_connected, last_attempt_ts >>
  /\ UNCHANGED conc

\* a producer appears
ProducerStart ==
  /\ producer = None
  /\ producer' = NextPid(spawned)
  /\ spawned' = NextPid(spawned)
  /\ Idle
  /\ UNCHANGED << call, provider, fps, now, os_pid, installed, sock, sock_pid, updates,
                  ever_connected, last_attempt_ts >>
  /\ UNCHANGED conc

\* the producer exits: an open socket has lost its peer
ProducerExit ==
  /\ producer /= None
  /\ producer' = None
  /\ sock' = IF sock = "open" THEN "dead" ELSE sock
  /\ Idle
  /\ UNCHANGED << call, provider, fps, now, os_pid, installed, spawned, sock_pid, updates,
                  ever_connected, last_attempt_ts >>
  /\ UNCHANGED conc

\* the clock moves by the read guard
TickSmall ==
  /\ now = Epoch
  /\ now' = now + SmallStep
  /\ Idle
  /\ UNCHANGED << call, provider, fps, os_pid, installed, producer, spawned, sock, sock_pid,
                  updates, ever_connected, last_attempt_ts >>
  /\ UNCHANGED conc

\* a stored timestamp after the clock has been moved back by CoarseStep;
\* what falls below 0 was already more than discovery_interval in the past
Rebase(ts) == IF ts > CoarseStep THEN ts - CoarseStep ELSE 0

\* the clock moves to Epoch + CoarseStep, and is then read relative to the
\* new instant: every stored timestamp keeps its distance to now
TickCoarse ==
  /\ now' = Epoch
  /\ provider' = [ provider EXCEPT !.last_update_ts = Rebase(@) ]
  /\ fps' = [ fps EXCEPT !.last_discovery_time = Rebase(@) ]
  /\ last_attempt_ts' = Rebase(last_attempt_ts)
  /\ Idle
  /\ UNCHANGED << call, os_pid, installed, producer, spawned, sock, sock_pid, updates,
                  ever_connected >>
  /\ UNCHANGED conc

Next ==
  \/ NewMetrics
  \/ NewFps
  \/ EnsureConnected
  \/ Disconnect
  \/ Update
  \/ FpsConnect
  \/ FpsDisconnect
  \/ FpsReadFpsData
  \/ FpsAsNumeric
  \/ FpsAsString
  \/ FpsLastValues
  \/ OneAsNumeric
  \/ OneAsString
  \/ ZeroOneAsNumeric
  \/ ZeroOneAsString
  \/ BaseAsNumeric
  \/ BaseAsString
  \/ BaseLastValues
  \/ Install
  \/ ProducerStart
  \/ ProducerExit
  \/ TickSmall
  \/ TickCoarse
  \/ Return

Spec == Init /\ [][Next]_vars

\* ------------------------------------------------------------ threads
\*
\* Two threads of the host poll a _MangoHudBaseSensor each: _ensure() calls
\* ensure_connected() and update() on the one provider.  The provider takes
\* no lock, so the threads interleave between any two statements; the steps
\* below are the statements that read or write what the threads share.

\* the order of the keys of self.histories
KeyOrder == << "fps", "gpu_load", "gpu_temp", "gpu_junction_temp", "gpu_power" >>

\* frames with content come to the threads at most this often
MaxConcUpdates == 2

ConcConnectOutcomes == {"ok", "false"}
ConcReadOutcomes ==
  IF updates < MaxConcUpdates THEN {FrameA, FrameB, NoFrame} ELSE {NoFrame}

InitConc ==
  /\ provider = ProviderInit(TRUE)
  /\ fps = FpsInit(1)
  /\ now = Epoch
  /\ os_pid = 1
  /\ installed = TRUE
  /\ producer = 101
  /\ spawned = 101
  /\ sock = "none"
  /\ sock_pid = None
  /\ updates = 0
  /\ ever_connected = FALSE
  /\ last_attempt_ts = 0
  /\ call = NoCall
  /\ th = [ t \in Threads |-> ThreadIdle ]
  /\ opened = 0
  /\ stream = NoStream

Goto(t, label) == [ th EXCEPT ![t].pc = label ]

\* _ensure() -> ensure_connected(): the client is there; `if self.connected`
T_Check(t) ==
  /\ th[t].pc = "idle"
  /\ th' = Goto(t, IF already_connected(provider) THEN "update" ELSE "connect")
  /\ UNCHANGED << stream, provider, fps, now, os_pid, installed, producer, spawned, sock,
                  sock_pid, updates, ever_connected, last_attempt_ts, call, opened >>

\* ensure_connected(): the call self.client.connect()
T_Connect(t) ==
  /\ th[t].pc = "connect"
  /\ \E c \in ConcConnectOutcomes :
       LET w == client_connect(World("ensure_connected", "thread"),
                               Out(TRUE, c, "ok", NoFrame, "ok"))
       IN /\ sock' = w.sock
          /\ sock_pid' = w.sock_pid
          /\ ever_connected' = w.ever_connected
          /\ last_attempt_ts' = w.last_attempt_ts
          /\ opened' = IF w.res = "ok" THEN opened + 1 ELSE opened
          /\ th' = [ th EXCEPT ![t].pc = "connected", ![t].res = w.res ]
  /\ UNCHANGED << stream, provider, fps, now, os_pid, installed, producer, spawned, updates,
                  call >>

\* ensure_connected(): self.connected = bool(...), then self.pid
T_SetConnected(t) ==
  /\ th[t].pc = "connected"
  /\ provider' = [ provider EXCEPT
                     !.connected = (th[t].res = "ok"),
                     !.pid = IF th[t].res = "ok" THEN sock_pid ELSE @ ]
  /\ opened' = IF th[t].res = "ok" THEN opened ELSE 0
  /\ th' = Goto(t, "update")
  /\ UNCHANGED << stream, fps, now, os_pid, installed, producer, spawned, sock, sock_pid,
                  updates, ever_connected, last_attempt_ts, call >>

\* update(): not connected, or called again within the guard, or on to read
T_UpdateGuard(t) ==
  /\ th[t].pc = "update"
  /\ IF ~provider.connected \/ read_throttled(provider, now)
     THEN /\ th' = Goto(t, "idle")
          /\ UNCHANGED provider
     ELSE /\ th' = Goto(t, "read")
          /\ provider' = [ provider EXCEPT !.last_update_ts = now ]
  /\ UNCHANGED << stream, fps, now, os_pid, installed, producer, spawned, sock, sock_pid,
                  updates, ever_connected, last_attempt_ts, call, opened >>

\* update(): m = self.client.read_metrics(); `if not m: return False`
T_Read(t) ==
  /\ th[t].pc = "read"
  /\ \E r \in ConcReadOutcomes :
       LET w == client_read_metrics(World("update", "thread"),
                                    Out(TRUE, "false", "ok", r, "ok"))
       IN /\ sock' = w.sock
          /\ sock_pid' = w.sock_pid
          /\ updates' = IF Truthy(w.frame) THEN updates + 1 ELSE updates
          /\ th' = [ th EXCEPT ![t].pc = IF Truthy(w.frame) THEN "store" ELSE "idle",
                               ![t].m = IF Truthy(w.frame) THEN w.frame ELSE NoFrame ]
  /\ UNCHANGED << stream, provider, fps, now, os_pid, installed, producer, spawned,
                  ever_connected, last_attempt_ts, call, opened >>

\* update(): self.metrics = m
T_Store(t) ==
  /\ th[t].pc = "store"
  /\ provider' = [ provider EXCEPT !.metrics = th[t].m ]
  /\ th' = [ th EXCEPT ![t].pc = "append", ![t].k = 1 ]
  /\ UNCHANGED << stream, fps, now, os_pid, installed, producer, spawned, sock, sock_pid,
                  updates, ever_connected, last_attempt_ts, call, opened >>

\* update(): self.histories[k].append(...)
T_Append(t) ==
  /\ th[t].pc = "append"
  /\ LET k == KeyOrder[th[t].k]
         v == IF DictGet(th[t].m, k) = None THEN nan ELSE DictGet(th[t].m, k)
     IN provider' = [ provider EXCEPT !.histories[k] = Append(@, v) ]
  /\ th' = Goto(t, "pop")
  /\ UNCHANGED << stream, fps, now, os_pid, installed, producer, spawned, sock, sock_pid,
                  updates, ever_connected, last_attempt_ts, call, opened >>

\* update(): self.histories[k].pop(0), and on to the next key or out
T_Pop(t) ==
  /\ th[t].pc = "pop"
  /\ provider' = [ provider EXCEPT !.histories[KeyOrder[th[t].k]] = Tail(@) ]
  /\ th' = IF th[t].k < Len(KeyOrder)
           THEN [ th EXCEPT ![t].pc = "append", ![t].k = @ + 1 ]
           ELSE [ th EXCEPT ![t] = ThreadIdle ]
  /\ UNCHANGED << stream, fps, now, os_pid, installed, producer, spawned, sock, sock_pid,
                  updates, ever_connected, last_attempt_ts, call, opened >>

NextConc ==
  \/ \E t \in Threads : T_Check(t)
  \/ \E t \in Threads : T_Connect(t)
  \/ \E t \in Threads : T_SetConnected(t)
  \/ \E t \in Threads : T_UpdateGuard(t)
  \/ \E t \in Threads : T_Read(t)
  \/ \E t \in Threads : T_Store(t)
  \/ \E t \in Threads : T_Append(t)
  \/ \E t \in Threads : T_Pop(t)
  \/ TickSmall
  \/ TickCoarse

SpecConc == InitConc /\ [][NextConc]_vars

\* ------------------------------------------------------------ a long run of frames
\*
\* The provider is connected to a producer that emits frame after frame; the
\* host calls update(), time passes between the calls, and a read can come
\* back empty or fail.  The n-th frame
\* of a stream holds values that tell n and the field; with a gap g every
\* g-th frame lacks some of the fields.

\* frames with content in one behaviour: one more than a history holds
MaxPushes == 61

Streams == { [ base |-> b, gap |-> g ] : b \in {2, 1001}, g \in {0, 2, 3} }

StreamFields ==
  {"fps", "fps_1_percent_low", "gpu_load", "gpu_temp", "gpu_junction_temp",
   "gpu_power", "cpu_load"}

\* the fields every g-th frame lacks
GapFields == {"fps_1_percent_low", "gpu_temp", "gpu_power", "cpu_load"}

FieldNo(k) ==
  CASE k = "fps" -> 0
    [] k = "fps_1_percent_low" -> 1
    [] k = "gpu_load" -> 2
    [] k = "gpu_temp" -> 3
    [] k = "gpu_junction_temp" -> 4
    [] k = "gpu_power" -> 5
    [] k = "cpu_load" -> 6

\* the n-th mapping read_metrics() returns
StreamFrame(st, n) ==
  LET lacks == IF st.gap /= 0 /\ n % st.gap = 0 THEN GapFields ELSE {}
  IN [ k \in StreamFields \ lacks |-> st.base + 200 * FieldNo(k) + 2 * n ]

HistReadOutcomes ==
  (IF updates < MaxPushes THEN {StreamFrame(stream, updates + 1)} ELSE {})
    \cup {NoFrame, Raises}

InitHist ==
  /\ provider = [ ProviderInit(TRUE) EXCEPT !.connected = TRUE, !.pid = 101 ]
  /\ fps = [ FpsInit(1) EXCEPT !.connected = TRUE, !.pid = 101 ]
  /\ now = Epoch
  /\ os_pid = 1
  /\ installed = TRUE
  /\ producer = 101
  /\ spawned = 101
  /\ sock = "open"
  /\ sock_pid = 101
  /\ updates = 0
  /\ ever_connected = TRUE
  /\ last_attempt_ts = 0
  /\ call = NoCall
  /\ th = [ t \in Threads |-> ThreadIdle ]
  /\ opened = 0
  /\ stream \in Streams

\* provider.update()
HistUpdate ==
  /\ Idle
  /\ \E r \in HistReadOutcomes :
       Done(update(World("update", "provider"), Out(TRUE, "false", "ok", r, "ok")))

NextHist ==
  \/ HistUpdate
  \/ Return
  \/ TickSmall
  \/ TickCoarse

SpecHist == InitHist /\ [][NextHist]_vars

\* ------------------------------------------------------------ the socket's buffer
\* The producer emits frames faster than the host polls: the frames wait in
\* the socket's buffer until a read.
\*   stream.emitted    frames the producer has emitted so far
\*   stream.consumed   frames the reads have taken from the socket so far
\*   stream.drained    frames the last call's read took

\* frames the producer emits in one behaviour
MaxEmitted == 4

\* the frames waiting in the socket, oldest first
Buffered(st) ==
  [ i \in 1..(st.emitted - st.consumed) |-> StreamFrame(st, st.consumed + i) ]

\* read_latest_packet(): of the frames buffered, the one read last
read_latest_packet(buf) == IF buf = << >> THEN NoFrame ELSE buf[Len(buf)]

\* the socket after a call: a read has taken every frame that waited
drained(st, reads) ==
  IF reads = 0 THEN [ st EXCEPT !.drained = 0 ]
  ELSE [ st EXCEPT !.consumed = st.emitted, !.drained = st.emitted - st.consumed ]

\* the outcomes of a call on this socket
DrainOutcomes == { Out(TRUE, "false", "ok", read_latest_packet(Buffered(stream)), "ok") }

InitDrain ==
  /\ provider = [ ProviderInit(TRUE) EXCEPT !.connected = TRUE, !.pid = 101 ]
  /\ fps = [ FpsInit(1) EXCEPT !.connected = TRUE, !.pid = 101 ]
  /\ now = Epoch
  /\ os_pid = 1
  /\ installed = TRUE
  /\ producer = 101
  /\ spawned = 101
  /\ sock = "open"
  /\ sock_pid = 101
  /\ updates = 0
  /\ ever_connected = TRUE
  /\ last_attempt_ts = 0
  /\ call = NoCall
  /\ th = [ t \in Threads |-> ThreadIdle ]
  /\ opened = 0
  /\ stream \in { [ base |-> st.base, gap |-> st.gap,
                     emitted |-> 0, consumed |-> 0, drained |-> 0 ] : st \in Streams }

\* the producer emits a frame
Emit ==
  /\ Idle
  /\ stream.emitted < MaxEmitted
  /\ stream' = [ stream EXCEPT !.emitted = @ + 1 ]
  /\ UNCHANGED << call, provider, fps, now, os_pid, installed, producer, spawned, sock,
                  sock_pid, updates, ever_connected, last_attempt_ts, th, opened >>

\* a call on this socket is over
DrainDone(w) ==
  /\ Effects(w)
  /\ stream' = drained(stream, w.reads)
  /\ UNCHANGED << th, opened >>

\* provider.update()
DrainUpdate ==
  /\ Idle
  /\ \E o \in DrainOutcomes :
       DrainDone(update(World("update", "provider"), o))

\* MangoHudFPS().as_numeric()
DrainFpsAsNumeric ==
  /\ Idle
  /\ \E o \in DrainOutcomes :
       DrainDone(fps_as_numeric(MangoHudFPS_new(World("as_numeric", "MangoHudFPS"), o), o))

NextDrain ==
  \/ Emit
  \/ DrainUpdate
  \/ DrainFpsAsNumeric
  \/ Return
  \/ TickSmall
  \/ TickCoarse

SpecDrain == InitDrain /\ [][NextDrain]_vars

\* ------------------------------------------------------------ the facades alone
\* The host reaches the provider only through the facades: it polls sensors
\* and calls MangoHudFPS.connect() and MangoHudFPS.disconnect().

NextFacade ==
  \/ FpsConnect
  \/ FpsDisconnect
  \/ FpsAsNumeric
  \/ FpsAsString
  \/ FpsLastValues
  \/ OneAsNumeric
  \/ OneAsString
  \/ ZeroOneAsNumeric
  \/ ZeroOneAsString
  \/ BaseAsNumeric
  \/ BaseAsString
  \/ BaseLastValues
  \/ Return
  \/ Install
  \/ ProducerStart
  \/ ProducerExit
  \/ TickSmall
  \/ TickCoarse

SpecFacade == Init /\ [][NextFacade]_vars

\* ------------------------------------------------------------ the polling host

\* The host polls the sensors of its theme while time passes: a call that
\* has been entered returns, and the clock goes on.  The client may fail and
\* disconnect() may be called at any time.
InitFair == Init /\ installed

NextFair ==
  \/ FpsAsNumeric
  \/ FpsAsString
  \/ BaseAsNumeric
  \/ FpsDisconnect
  \/ Disconnect
  \/ ProducerStart
  \/ ProducerExit
  \/ TickSmall
  \/ TickCoarse
  \/ Return

FairSpec ==
  /\ InitFair
  /\ [][NextFair]_vars
  /\ WF_vars(Return)
  /\ SF_vars(TickCoarse)

\* ------------------------------------------------------------ claims

\* C1 (as claimed): while no connection has succeeded, a poll of a facade
\* (as_numeric() or as_string() of any sensor) calls client.connect() only
\* if discovery_interval has passed since the previous client.connect() call.
C1_DiscoveryBackoff ==
  (call.op \in {"as_numeric", "as_string"} /\ call.connects > 0 /\ call.first_pending)
    => call.attempt_gap >= discovery_interval

\* C2 (as claimed): after a call that found the provider connected and in
\* which a read of the socket failed or met a closed peer, the provider is
\* disconnected and holds no producer id.
C2_ReadFaultDisconnects ==
  (call.pre_connected /\ call.reads > 0 /\ call.read_fault)
    => (~provider.connected /\ provider.pid = None)

\* C4: ensure_connected() and MangoHudFPS.connect(), called while the
\* provider is connected, return true, make no client.connect() call and
\* leave the provider connected with the same producer id.
C4_EnsureConnectedIdempotent ==
  (call.op \in {"ensure_connected", "connect"} /\ call.pre_connected)
    => /\ call.retb
       /\ ~call.exc
       /\ call.connects = 0
       /\ provider.connected
       /\ provider.pid = call.pre_pid

\* C4's case: ensure_connected() called on a connected provider that knows
\* its producer
C4_Witness ==
  /\ call.op = "ensure_connected"
  /\ call.pre_connected
  /\ call.pre_pid /= None

\* C5: a call in which client.connect() returned false or raised raises
\* nothing, leaves the provider disconnected without a producer id, and
\* ensure_connected() / connect() report false.
C5_ConnectFailureContained ==
  call.connect_failed
    => /\ ~call.exc
       /\ ~provider.connected
       /\ provider.pid = None
       /\ (call.op \in {"ensure_connected", "connect"} => ~call.retb)

\* C5's case: ensure_connected() fails to connect although a producer runs
C5_Witness ==
  /\ call.op = "ensure_connected"
  /\ call.connect_failed
  /\ producer /= None

\* C6 (as claimed): disconnect() of the provider and of MangoHudFPS raises
\* nothing and leaves connected false and the producer id None, on the
\* provider and, for MangoHudFPS.disconnect(), on the facade too.
C6_DisconnectSwallows ==
  call.op = "disconnect"
    => /\ ~call.exc
       /\ ~provider.connected
       /\ provider.pid = None
       /\ (call.sensor = "MangoHudFPS" => (~fps.connected /\ fps.pid = None))

\* C8: constructing MangoHudMetrics() or MangoHudFPS() once the provider is
\* initialised changes none of connected, pid, metrics and histories.
C8_SingleInstance ==
  [][ (Idle /\ provider.init_done /\ call'.op \in {"MangoHudMetrics", "MangoHudFPS"})
        => /\ provider'.connected = provider.connected
           /\ provider'.pid = provider.pid
           /\ provider'.metrics = provider.metrics
           /\ provider'.histories = provider.histories ]_vars

\* C8's case: a construction that finds the provider connected, with metrics
C8_Witness ==
  /\ call.op \in {"MangoHudMetrics", "MangoHudFPS"}
  /\ provider.connected
  /\ Truthy(provider.metrics)

\* C9 (as claimed): as long as no connection has succeeded, ensure_connected()
\* returns false, every as_string() returns "---" and every as_numeric()
\* returns 0.
C9_NoProducer ==
  ~ever_connected
    => /\ (call.op = "ensure_connected" => ~call.retb)
       /\ (call.op = "as_string" => call.rets = Placeholder)
       /\ (call.op = "as_numeric" => call.retn = 0)

\* C10 (as claimed): every as_string() returns a text as wide as "---".
C10_ConstantWidth ==
  call.op = "as_string" => Len(call.rets) = Len(Placeholder)

\* a producer runs, the client fails for no reason, nobody calls disconnect()
Calm == producer /= None /\ ~call.injected /\ call.op /= "disconnect"

\* a poll has read the socket of the running producer
Delivered ==
  /\ call.reads > 0
  /\ ~call.read_fault
  /\ sock = "open"
  /\ sock_pid = producer

\* the facades keep being polled
KeepPolling ==
  /\ []<><<FpsAsNumeric>>_vars
  /\ []<><<BaseAsNumeric>>_vars

\* C3 (as claimed): whatever has happened, once a producer stays available
\* and the faults and disconnect() calls have ceased, facades that keep being
\* polled read from the producer again, and go on doing so.
C3_NoFatalState == (KeepPolling /\ <>[]Calm) => []<>Delivered

\* every thread is outside update()
Quiescent == \A t \in Threads : th[t].pc \in {"idle", "connect", "connected", "update"}

\* C7, first half: between two moments at which the provider is set
\* disconnected, at most one client.connect() succeeds.
C7_OneConnection == opened <= 1

\* C7, second half: whenever no thread is inside update(), every rolling
\* history holds HistLen values.
C7_HistoryLength ==
  Quiescent => \A k \in HistKeys : Len(provider.histories[k]) = HistLen

\* C7 (as claimed): with threads polling at once, one connection at most is
\* opened per transition from disconnected to connected, and no interleaving
\* of update() calls leaves a history with a length other than HistLen.
C7_Serialized == C7_OneConnection /\ C7_HistoryLength

\* C11: as_numeric(), as_string() and last_values() of every sensor raise
\* nothing and return a value, whatever the client does: missing, connect()
\* or get_pid() or read_metrics() raising, a read that yields nothing.
C11_AccessorsNeverFail ==
  call.op \in {"as_numeric", "as_string", "last_values"}
    => /\ ~call.exc
       /\ (call.op = "as_string" => Len(call.rets) > 0)
       /\ (call.op = "last_values" => Len(call.retl) > 0)

\* C11's case: a poll in which read_metrics() raised
C11_Witness ==
  /\ call.op \in {"as_numeric", "as_string"}
  /\ call.reads > 0
  /\ call.read_fault
  /\ call.injected

\* C12 (as claimed): while MangoHudFPS holds no 1% low value (respectively
\* no 0.1% low value: the attribute has its default 0), as_string() of
\* MangoHud1PercentLow (respectively MangoHudZeroOnePercentLow) returns
\* "---", connected or not, and as_numeric() returns 0.
C12_InsufficientData ==
  /\ (call.sensor = "MangoHud1PercentLow" /\ fps.one_percent_low_fps = 0)
       => /\ (call.op = "as_string" => call.rets = Placeholder)
          /\ (call.op = "as_numeric" => call.retn = 0)
  /\ (call.sensor = "MangoHudZeroOnePercentLow" /\ fps.zero_one_percent_low_fps = 0)
       => /\ (call.op = "as_string" => call.rets = Placeholder)
          /\ (call.op = "as_numeric" => call.retn = 0)

\* C13: every rolling history of the provider holds HistLen entries, and
\* last_values() of every sensor returns HistLen entries, all NaN for a
\* sensor that tracks no history.
C13_HistoryLength ==
  /\ \A k \in HistKeys : Len(provider.histories[k]) = HistLen
  /\ call.op = "last_values"
       => /\ Len(call.retl) = HistLen
          /\ (call.sensor \notin HistKeys \cup {"MangoHudFPS"} => call.retl = NanList)

\* C13's case: last_values() of a sensor with a history, after an update
\* pushed a value
C13_Witness ==
  /\ call.op = "last_values"
  /\ call.sensor \in HistKeys
  /\ call.retl /= NanList
  /\ updates > 0

\* what the n-th frame of a stream pushes on the history of a tracked field
Pushed(st, n, k) ==
  IF DictGet(StreamFrame(st, n), k) = None THEN nan ELSE DictGet(StreamFrame(st, n), k)

\* HistLen - min(n, HistLen) sentinels, then the last min(n, HistLen) values
\* pushed by the first n frames, newest last
LastPushed(st, n, k) ==
  [ i \in 1..HistLen |->
      IF n - HistLen + i < 1 THEN nan ELSE Pushed(st, n - HistLen + i, k) ]

\* C14: after n successful updates the history of every tracked field is
\* HistLen - min(n, HistLen) sentinels followed by the last min(n, HistLen)
\* pushed values in arrival order.
C14_FifoEviction ==
  \A k \in HistKeys : provider.histories[k] = LastPushed(stream, updates, k)

\* C14's case: HistLen frames and more have been pushed, and no sentinel of
\* the initial contents is left in a history whose field every frame holds
C14_Witness ==
  /\ updates > HistLen
  /\ stream.gap = 0
  /\ \A i \in 1..HistLen : provider.histories["fps"][i] /= nan
  /\ provider.histories["fps"][HistLen] = Pushed(stream, updates, "fps")

\* C15: after an update() that read a mapping m with content, get(f) is m[f]
\* for every field of m and None for every other field, whatever the
\* snapshot held before.
C15_SnapshotReplaced ==
  (call.op = "update" /\ call.reads > 0 /\ call.retb)
    => \A f \in StreamFields :
         get([ p |-> provider ], f) = DictGet(StreamFrame(stream, updates), f)

\* C15's case: the mapping read lacks a field the snapshot before it held
C15_Witness ==
  /\ call.op = "update"
  /\ call.reads > 0
  /\ call.retb
  /\ updates > 1
  /\ DictGet(StreamFrame(stream, updates - 1), "gpu_temp") /= None
  /\ get([ p |-> provider ], "gpu_temp") = None

\* C16: an update() that read a mapping with content pushes one entry on
\* the history of each tracked field, the field's value in the mapping or
\* NaN if the mapping lacks it: the oldest entry goes, the others keep their
\* order.
C16_OnePushPerHistory ==
  [][ (Idle /\ call'.op = "update" /\ call'.reads > 0 /\ call'.retb)
        => \A k \in HistKeys :
             provider'.histories[k]
               = Append(Tail(provider.histories[k]), Pushed(stream, updates', k)) ]_vars

\* C16's case: the mapping read lacks a tracked field and holds another
C16_Witness ==
  /\ call.op = "update"
  /\ call.reads > 0
  /\ call.retb
  /\ Pushed(stream, updates, "gpu_temp") = nan
  /\ provider.histories["gpu_temp"][HistLen] = nan
  /\ provider.histories["fps"][HistLen] = Pushed(stream, updates, "fps")
  /\ provider.histories["fps"][HistLen] /= nan

\* C17: a call in which client.read_metrics() gave nothing (None, an empty
\* mapping, an exception) leaves the snapshot, every history and
\* MangoHudFPS.current_fps / one_percent_low_fps as they were, and update()
\* and read_fps_data() return false.
C17_EmptyReadRetains ==
  [][ (Idle /\ call'.read_empty)
        => /\ provider'.metrics = provider.metrics
           /\ provider'.histories = provider.histories
           /\ fps'.current_fps = fps.current_fps
           /\ fps'.one_percent_low_fps = fps.one_percent_low_fps
           /\ (call'.op \in {"update", "read_fps_data"} => ~call'.retb) ]_vars

\* C17's case: read_fps_data() reads nothing while values of an earlier
\* frame are held
C17_Witness ==
  /\ call.op = "read_fps_data"
  /\ call.read_empty
  /\ Truthy(provider.metrics)
  /\ fps.current_fps /= 0
  /\ fps.one_percent_low_fps /= 0

\* C18, first half: disconnect() of the provider or of MangoHudFPS leaves
\* last_discovery_time, the snapshot and the histories as they were.
C18_DisconnectFrame ==
  [][ (Idle /\ call'.op = "disconnect")
        => /\ fps'.last_discovery_time = fps.last_discovery_time
           /\ provider'.metrics = provider.metrics
           /\ provider'.histories = provider.histories ]_vars

\* C18, second half: once disconnect() has ended a connection, a request to
\* connect made less than discovery_interval after the discovery attempt
\* last_discovery_time records calls no client.connect() and, if it is
\* ensure_connected() or connect(), returns false.
C18_BackoffAfterDisconnect ==
  [][ ( /\ Idle
        /\ ever_connected
        /\ ~provider.connected
        /\ now - fps.last_discovery_time < discovery_interval
        /\ call'.op \in {"ensure_connected", "connect", "as_numeric", "as_string"} )
        => /\ call'.connects = 0
           /\ (call'.op \in {"ensure_connected", "connect"} => ~call'.retb) ]_vars

\* C18 (as claimed): disconnect() leaves the timestamp of the last discovery
\* attempt, the snapshot and the histories unchanged, so that a request to
\* connect made after disconnect() and within discovery_interval of that
\* attempt makes no new attempt and returns false.
C18_DisconnectKeepsBackoff == C18_DisconnectFrame /\ C18_BackoffAfterDisconnect

\* C19 (as claimed): MangoHudFPS.last_values() returns the rolling history
\* of fps the provider holds: the last values read, newest last.
C19_FpsLastValues ==
  (call.op = "last_values" /\ call.sensor = "MangoHudFPS")
    => call.retl = provider.histories["fps"]

\* C20 (as claimed): once read_fps_data() has succeeded on a snapshot that
\* holds a 1% low (respectively 0.1% low) value, MangoHudFPS holds that
\* value, and as_numeric() of MangoHud1PercentLow (respectively
\* MangoHudZeroOnePercentLow) returns what MangoHudFPS holds.
C20_LowValuesExposed ==
  /\ (call.op = "read_fps_data" /\ call.retb)
       => /\ DictGet(provider.metrics, "fps_1_percent_low") /= None
               => fps.one_percent_low_fps = DictGet(provider.metrics, "fps_1_percent_low")
          /\ DictGet(provider.metrics, "fps_0_1_percent_low") /= None
               => fps.zero_one_percent_low_fps
                    = DictGet(provider.metrics, "fps_0_1_percent_low")
  /\ (call.op = "as_numeric" /\ call.sensor = "MangoHud1PercentLow")
       => call.retn = fps.one_percent_low_fps
  /\ (call.op = "as_numeric" /\ call.sensor = "MangoHudZeroOnePercentLow")
       => call.retn = fps.zero_one_percent_low_fps

\* C20, the 1% low alone
C20_OnePercentLowExposed ==
  /\ (call.op = "read_fps_data" /\ call.retb)
       => (DictGet(provider.metrics, "fps_1_percent_low") /= None
             => fps.one_percent_low_fps = DictGet(provider.metrics, "fps_1_percent_low"))
  /\ (call.op = "as_numeric" /\ call.sensor = "MangoHud1PercentLow")
       => call.retn = fps.one_percent_low_fps

C22_ReadThrottle ==
  [][ (Idle /\ call'.op /= "none")
        => /\ call'.reads <= 1
           /\ (provider.connected /\ now - provider.last_update_ts < update_guard)
                => /\ call'.reads = 0
                   /\ provider'.metrics = provider.metrics
                   /\ provider'.histories = provider.histories
                   /\ call'.op = "update" => call'.retb = Truthy(provider.metrics)
                   /\ (call'.op = "read_fps_data" /\ call'.retb) => Truthy(provider.metrics) ]_vars

\* update() was called again within the guard of a read that had filled the
\* snapshot: it has read nothing and returned true
C22_Witness ==
  /\ call.op = "update"
  /\ call.pre_connected
  /\ now - provider.last_update_ts < update_guard
  /\ call.reads = 0
  /\ call.retb
  /\ Truthy(provider.metrics)

\* C23: facade and provider agree.  Between the calls of a host that polls
\* sensors and calls MangoHudFPS.connect() and MangoHudFPS.disconnect(),
\* MangoHudFPS.connected is true only if the provider is connected, and
\* MangoHudFPS.pid equals the provider's pid.
C23_FacadeAgreesWithProvider ==
  Idle => /\ fps.connected => provider.connected
          /\ fps.pid = provider.pid

\* the half on connected alone: MangoHudFPS.connected implies the provider's
C23_ConnectedAgrees == Idle => (fps.connected => provider.connected)

\* C24: the provider holds a producer id only while connected.  In every
\* state pid is not None only if connected is true; a call leaves a pid it did
\* not find only if a client.connect() of that call succeeded; after every
\* disconnect(), of the provider or of MangoHudFPS, with or without a fault of
\* the client, pid is None and connected is false.
C24_PidOnlyWhileConnected ==
  /\ provider.pid /= None => provider.connected
  /\ (call.op /= "none" /\ provider.pid /= None /\ provider.pid /= call.pre_pid)
       => (call.connects > 0 /\ ~call.connect_failed)
  /\ call.op = "disconnect" => (provider.pid = None /\ ~provider.connected)

\* disconnect() was called on a connected provider that held a pid, and
\* client.disconnect() raised
C24_Witness ==
  /\ call.op = "disconnect"
  /\ call.pre_connected
  /\ call.pre_pid /= None
  /\ call.exc
  /\ provider.pid = None

====
